---- MODULE Spec2Model ----
(***************************************************************************)
(* The casino wallet callbacks of src/src/casino/casino.handlers.ts        *)
(* (debit, credit, rollback) over the casino_wallets and                   *)
(* casino_transactions tables.  Every await of a handler is one step, so   *)
(* that handlers of concurrent requests interleave as they do on the Node  *)
(* event loop; a Prisma interactive transaction is a PostgreSQL READ       *)
(* COMMITTED transaction: its writes are private until COMMIT, an UPDATE   *)
(* takes the row lock of the wallet, an INSERT is checked against the      *)
(* UNIQUE index on external_transaction_id, and a throw inside the         *)
(* callback rolls every write back.                                        *)
(***************************************************************************)
EXTENDS Integers, Sequences, FiniteSets, TLC

\* ------------------------------------------------------------------ bounds

\* Largest amount a request carries.
MaxAmount == 2
\* Largest opening balance of the wallet.
MaxOpening == 2

\* The handlers that may be in flight at the same time.
Procs == {1, 2}
Amounts == 1..MaxAmount

\* ------------------------------------------------------------ the registry

NoId == "none"
TxIds == {"t1", "t2", "t3"}

\* The transaction ids simulateRound draws, by the step that draws them.
SeedTxIds ==
    {"firstBet", "secondBet", "rollback", "payout", "tombstone",
     "rejectedRollback"}
AllTxIds == TxIds \cup SeedTxIds
Rounds == {"r1", "r2"}
\* wallet1 and wallet2 of the seed, of user1 and user2.
Wallets == {"w1", "w2"}

\* <<sessionToken, userId>> of a request: the session and its user, the
\* session and another user, a token no session has.
Credentials == {<<"s1", "u1">>, <<"s1", "u2">>, <<"bad", "u1">>}

\* minBet and maxBet of the session's game (1000 and 100000 in the seed),
\* scaled down.
minBet == 1
maxBet == 1

\* game1 of the seed: minBet and maxBet in cents.
game1 == [minBet |-> 1000, maxBet |-> 100000]

\* The game of the scaled-down session.
game0 == [minBet |-> minBet, maxBet |-> maxBet]

NoSession ==
    [token |-> NoId, userId |-> NoId, walletId |-> NoId,
     game |-> [minBet |-> 0, maxBet |-> 0]]

\* prisma.casinoGameSession.findUnique({ where: { token } }): the sessions that
\* launchGame has created: s1 and s2 of user u1 on wallet w1, s1 on the
\* scaled-down game and s2 on game1, and s3 of user u2 on wallet w2; every
\* other token resolves to nothing.
casinoGameSession(token) ==
    CASE token = "s1" ->
             [token |-> "s1", userId |-> "u1", walletId |-> "w1", game |-> game0]
      [] token = "s2" ->
             [token |-> "s2", userId |-> "u1", walletId |-> "w1", game |-> game1]
      [] token = "s3" ->
             [token |-> "s3", userId |-> "u2", walletId |-> "w2", game |-> game0]
      [] OTHER -> NoSession

currencyCode(w) == "USD"

\* ------------------------------------------------------------- conversions

Digit(d) ==
    CASE d = 0 -> "0" [] d = 1 -> "1" [] d = 2 -> "2" [] d = 3 -> "3"
      [] d = 4 -> "4" [] d = 5 -> "5" [] d = 6 -> "6" [] d = 7 -> "7"
      [] d = 8 -> "8" [] OTHER -> "9"

RECURSIVE BigIntToString(_)
\* BigInt.prototype.toString(): the decimal digits, most significant first.
BigIntToString(n) ==
    IF n < 0 THEN <<"-">> \o BigIntToString(0 - n)
    ELSE IF n < 10 THEN <<Digit(n)>>
    ELSE BigIntToString(n \div 10) \o <<Digit(n % 10)>>

\* ---------------------------------------------------------------- requests

NoReq ==
    [kind |-> "none", sessionToken |-> NoId, userId |-> NoId,
     transactionId |-> NoId, roundId |-> NoId, amount |-> 0,
     relatedTransactionId |-> NoId, originalTransactionId |-> NoId]

Request(kind, cred, transactionId, roundId, amount, related, original) ==
    [kind |-> kind, sessionToken |-> cred[1], userId |-> cred[2],
     transactionId |-> transactionId, roundId |-> roundId, amount |-> amount,
     relatedTransactionId |-> related, originalTransactionId |-> original]

\* The requests with the given transaction ids and rounds, whose rollbacks
\* name one of the given original transactions.
RequestsOver(ids, rounds, originals) ==
    {Request(k, c, t, r, a, NoId, NoId) :
        k \in {"debit", "credit"}, c \in Credentials, t \in ids, r \in rounds,
        a \in Amounts}
    \cup
    {Request("rollback", c, t, r, 0, NoId, o) :
        c \in Credentials, t \in ids, r \in rounds, o \in originals}

\* The debits, credits and rollbacks of one session and user.
RequestsFor(cred, ids, rounds, amounts, originals) ==
    {Request(k, cred, t, r, a, NoId, NoId) :
        k \in {"debit", "credit"}, t \in ids, r \in rounds, a \in amounts}
    \cup
    {Request("rollback", cred, t, r, 0, NoId, o) :
        t \in ids, r \in rounds, o \in originals}

\* Amounts at and next to the bet bounds of game1.
BetAmounts ==
    {game1.minBet - 1, game1.minBet, game1.minBet + 1,
     game1.maxBet - 1, game1.maxBet, game1.maxBet + 1}

\* Requests on the session of game1.
BetRequests == RequestsFor(<<"s2", "u1">>, TxIds, {"r1"}, BetAmounts, {"t1"})

\* The callbacks simulateRound sends for one round on the session of game1:
\* two bets of minBet, the rollback of the second, a payout of twice the first,
\* a rollback of a transaction that does not exist, a rollback of the first
\* bet.  The idempotency retry sends the first bet again.
SeedRequests ==
    LET cred == <<"s2", "u1">> IN
    {Request("debit", cred, "firstBet", "r1", game1.minBet, NoId, NoId),
     Request("debit", cred, "secondBet", "r1", game1.minBet, NoId, NoId),
     Request("rollback", cred, "rollback", "r1", 0, NoId, "secondBet"),
     Request("credit", cred, "payout", "r1", game1.minBet * 2, "firstBet", NoId),
     Request("rollback", cred, "tombstone", "r1", 0, NoId,
             "non-existent-transaction-id"),
     Request("rollback", cred, "rejectedRollback", "r1", 0, NoId, "firstBet")}

\* Mutations that run while balances are being read.
BalanceRequests ==
    RequestsFor(<<"s1", "u1">>, {"t1", "t2"}, {"r1"}, Amounts, {"t1"})

\* Requests of two users, each on the session of their own wallet.
WalletRequests ==
    RequestsFor(<<"s1", "u1">>, {"t1", "t2"}, {"r1"}, {minBet}, {"t1"})
    \cup RequestsFor(<<"s3", "u2">>, {"t1", "t2"}, {"r1"}, {minBet}, {"t1"})

\* Requests whose amount is BigInt(amount) of any integer the caller sends:
\* negative, zero, or a bet of the game.
AnyAmountRequests ==
    RequestsFor(<<"s1", "u1">>, {"t1", "t2"}, {"r1"}, {0 - 1, 0, minBet}, {"t1"})

\* One round played by concurrent handlers: a bet, its payout, and rollbacks
\* that name the bet or the payout; a rollback may carry an amount, which the
\* handler does not read.
RaceRequests ==
    LET cred == <<"s1", "u1">> IN
    {Request("debit", cred, "t1", "r1", minBet, NoId, NoId),
     Request("credit", cred, "t2", "r1", minBet, "t1", NoId)}
    \cup
    {Request("rollback", cred, t, "r1", a, NoId, o) :
        t \in {"t2", "t3"}, a \in {0, MaxAmount}, o \in {"t1", "t2"}}

\* Requests of handlers that run concurrently, of handlers that run one after
\* the other, and of a longer sequence of requests over two rounds.
Requests == RequestsOver({"t1", "t2"}, {"r1"}, {"t1", "t2"})
SeqRequests == RequestsOver({"t1", "t2"}, Rounds, TxIds)
RoundRequests == RequestsOver(TxIds, Rounds, TxIds)

\* ------------------------------------------------------------------- state

VARIABLES
    playableBalance,    \* casino_wallets.playable_balance, committed
    casinoTransaction,  \* casino_transactions, committed rows in commit order
    handler,            \* per handler in flight: where it is and what it read
    out,                \* the response res.json() is sending in this turn, if any
    openingBalance,     \* the balances the wallets were created with
    env,                \* process.env: CASINO_SECRET and PROVIDER_SECRET
    walletWrites,       \* per transactionId: committed wallet updates made for it
    accepted,           \* per transactionId: the response of its accepted request
    insufficient,       \* the transactionIds of debits refused for insufficient funds
    providerGameRound,  \* provider_game_rounds: the row of the simulated round
    providerBet,        \* provider_bets: the rows simulateRound has created
    simulation,         \* simulateRound: the step it is at, and whether it awaits
    verification        \* a call of verifySignature: its arguments and its result

vars == <<playableBalance, casinoTransaction, handler, out, openingBalance,
          env, walletWrites, accepted, insufficient, providerGameRound,
          providerBet, simulation, verification>>

\* No round has been created, and simulateRound is not running.
NoRound == [status |-> "none", totalBetAmount |-> 0, totalPayoutAmount |-> 0]
NotSimulating == [step |-> "none", awaits |-> FALSE]

\* verifySignature has not been called.
NotVerifying == [called |-> FALSE]

Idle ==
    [pc |-> "idle", req |-> NoReq, sessionBalance |-> 0, originalAmount |-> 0,
     walletBalance |-> 0]

NoRes == [code |-> 0, body |-> [error |-> NoId]]
NoOut == [kind |-> "none", transactionId |-> NoId, res |-> NoRes, outcome |-> "none"]

\* The value of an environment variable that is not set.
NoSecret == ""

\* The two HMAC secrets as deployed; the third key is one neither side has.
CasinoSecret == "casino-secret-key"
ProviderSecret == "provider-secret-key"
Keys == {CasinoSecret, ProviderSecret, "another-key"}

\* The process started with both secrets configured.
Configured == [CASINO_SECRET |-> CasinoSecret, PROVIDER_SECRET |-> ProviderSecret]

\* The environments a process may be started with: a secret set or not, the
\* provider secret possibly set to the same value as the casino secret.
Envs ==
    [CASINO_SECRET : {NoSecret, CasinoSecret},
     PROVIDER_SECRET : {NoSecret, ProviderSecret, CasinoSecret}]

\* The database after seeding, with wallets of the given balances, and no
\* request in flight.
InitWith(opening) ==
    /\ openingBalance = opening
    /\ playableBalance = openingBalance
    /\ casinoTransaction = <<>>
    /\ handler = [p \in Procs |-> Idle]
    /\ out = NoOut
    /\ walletWrites = [t \in AllTxIds |-> 0]
    /\ accepted = [t \in AllTxIds |-> NoRes]
    /\ insufficient = {}
    /\ providerGameRound = NoRound
    /\ providerBet = <<>>
    /\ simulation = NotSimulating
    /\ verification = NotVerifying

\* The database after seeding, with wallets of the given balances, the
\* process started in the given environment, and no request in flight.
Boot(opening, e) ==
    /\ env = e
    /\ InitWith(opening)

\* The opening balances in which the wallets that get no request are empty.
OpeningsOf(ws) ==
    {opening \in [Wallets -> 0..MaxOpening] :
        \A w \in Wallets \ ws : opening[w] = 0}

Init == \E opening \in OpeningsOf({"w1"}) : Boot(opening, Configured)

\* The wallets of the seed: playableBalance 1000000 and 500000 cents.
SeedInit ==
    Boot([w \in Wallets |-> IF w = "w1" THEN 1000000 ELSE 500000], Configured)

\* Both wallets in use.
WalletInit == \E opening \in OpeningsOf(Wallets) : Boot(opening, Configured)

\* ---------------------------------------------------------------- database

Rows == 1..Len(casinoTransaction)

\* prisma.casinoTransaction.findUnique({ where: { externalTransactionId } })
\* returns a row.
HasRow(id) ==
    \E i \in Rows : casinoTransaction[i].externalTransactionId = id

\* A table without the UNIQUE index refuses nothing.
NoUniqueIndex(id) == FALSE

\* The UNIQUE constraint on casino_transactions.external_transaction_id
\* refuses an insert: a committed row already holds the key.
UniqueViolation(id) == HasRow(id)

\* The row that findUnique returns.
FindByExternalId(id) ==
    casinoTransaction[CHOOSE i \in Rows :
                          casinoTransaction[i].externalTransactionId = id]

\* A payout check that finds nothing.
NoPayoutCheck(roundId) == FALSE

\* prisma.casinoTransaction.findFirst({ where: { externalRoundId,
\* transactionType: "credit" } }) finds a row.
RoundHasCredit(roundId) ==
    \E i \in Rows : /\ casinoTransaction[i].externalRoundId = roundId
                    /\ casinoTransaction[i].transactionType = "credit"

WalletOf(p) == casinoGameSession(handler[p].req.sessionToken).walletId

\* A lock on the whole wallet table: an UPDATE of any row waits for it.
HoldsTableLock(q, w) == handler[q].pc \in {"txCreate", "txCommit"}

\* The transaction of handler q has updated the wallet row and not yet ended:
\* it holds the row lock, and another UPDATE of the row waits for it.
HoldsRowLock(q, w) ==
    /\ handler[q].pc \in {"txCreate", "txCommit"}
    /\ WalletOf(q) = w

\* A key that stays claimed from the arrival of a request to its answer.
ClaimedWhileInFlight(q, id) ==
    /\ handler[q].pc # "idle"
    /\ handler[q].req.transactionId = id

\* The transaction of handler q has inserted a row with this key and not yet
\* ended: another INSERT of the key waits for it.
PendingInsert(q, id) ==
    /\ handler[q].pc = "txCommit"
    /\ handler[q].req.transactionId = id

\* --------------------------------------------------------------- responses

Http(code, body) == [code |-> code, body |-> body]

SessionNotFound == Http(404, [error |-> "Session not found"])
AmountOutOfRange == Http(400, [error |-> "Bet amount out of range"])
InsufficientFunds == Http(400, [error |-> "Insufficient funds"])
InvalidRollbackTarget ==
    Http(400, [error |-> "Only bets (debits) can be rolled back"])
RollbackAfterPayout ==
    Http(400, [error |-> "Cannot rollback: round already has a payout"])
InternalError == Http(500, [error |-> "Internal server error"])

responsePayload(transactionId, balance, w) ==
    [transactionId |-> transactionId, balance |-> BigIntToString(balance),
     currency |-> currencyCode(w), status |-> "ok"]

tombstoneResponse(transactionId, balance, w) ==
    [transactionId |-> transactionId, balance |-> BigIntToString(balance),
     currency |-> currencyCode(w), status |-> "ok", tombstone |-> TRUE]

\* A hit that answers from the wallet as it is now, not from the cache.
ReplayFresh(existing) ==
    Http(200, responsePayload(existing.externalTransactionId,
                              playableBalance[existing.walletId],
                              existing.walletId))

\* What an idempotent hit sends: res.json(existing.responseCache).
ReplayOf(existing) == Http(200, existing.responseCache)

\* ---------------------------------------------------------------- handlers

\* A rollback that records the original amount and restores nothing.
RestoresNothing(p) ==
    CASE handler[p].req.kind = "debit" ->
             handler[p].walletBalance - handler[p].req.amount
      [] handler[p].req.kind = "credit" ->
             handler[p].walletBalance + handler[p].req.amount
      [] OTHER -> handler[p].walletBalance

\* The signed effect of the transaction on the balance it read.
newBalance(p) ==
    CASE handler[p].req.kind = "debit" ->
             handler[p].walletBalance - handler[p].req.amount
      [] handler[p].req.kind = "credit" ->
             handler[p].walletBalance + handler[p].req.amount
      [] OTHER -> handler[p].walletBalance + handler[p].originalAmount

\* The row tx.casinoTransaction.create() inserts in debit, credit and rollback.
TransactionRow(p) ==
    LET r == handler[p].req IN
    [walletId |-> WalletOf(p),
     sessionId |-> r.sessionToken,
     transactionType |-> r.kind,
     amount |-> IF r.kind = "rollback" THEN handler[p].originalAmount
                ELSE r.amount,
     externalTransactionId |-> r.transactionId,
     externalRoundId |-> r.roundId,
     relatedExternalTransactionId |->
         CASE r.kind = "rollback" -> r.originalTransactionId
           [] r.kind = "credit" -> r.relatedTransactionId
           [] OTHER -> NoId,
     balanceAfter |-> newBalance(p),
     responseCache |-> responsePayload(r.transactionId, newBalance(p), WalletOf(p))]

\* The marker row rollback inserts when the original transaction is unknown.
TombstoneRow(p) ==
    LET r == handler[p].req IN
    [walletId |-> WalletOf(p),
     sessionId |-> r.sessionToken,
     transactionType |-> "rollback",
     amount |-> 0,
     externalTransactionId |-> r.transactionId,
     externalRoundId |-> r.roundId,
     relatedExternalTransactionId |-> r.originalTransactionId,
     balanceAfter |-> handler[p].sessionBalance,
     responseCache |->
         tombstoneResponse(r.transactionId, handler[p].sessionBalance, WalletOf(p))]

\* An insert that overwrites the row a rollback reverses instead of adding one.
ReplaceReversed(row) ==
    IF row.transactionType = "rollback"
           /\ HasRow(row.relatedExternalTransactionId)
    THEN [i \in Rows |->
             IF casinoTransaction[i].externalTransactionId =
                    row.relatedExternalTransactionId
             THEN row ELSE casinoTransaction[i]]
    ELSE Append(casinoTransaction, row)

\* casinoTransaction.create({ data }): the table with the new row behind the
\* rows it had.
casinoTransactionCreate(row) == Append(casinoTransaction, row)

\* The handler sends its response and ends.
Respond(p, res, outcome) ==
    /\ handler' = [handler EXCEPT ![p] = Idle]
    /\ out' = [kind |-> handler[p].req.kind,
                transactionId |-> handler[p].req.transactionId,
                res |-> res, outcome |-> outcome]

\* The handler goes on to its next await.
Goto(p, pc) ==
    /\ handler' = [handler EXCEPT ![p].pc = pc]
    /\ out' = NoOut

\* Handler p is at this await and the event loop is free to resume it: no
\* response is being sent.
Running(p, pc) == handler[p].pc = pc /\ out = NoOut

Unchanged ==
    UNCHANGED <<playableBalance, casinoTransaction, walletWrites, accepted>>

\* An idempotency lookup that also finds a row naming the id as its related
\* transaction.
LookupAlsoByRelated(p, req) ==
    LET hits == {i \in Rows :
                    \/ casinoTransaction[i].externalTransactionId = req.transactionId
                    \/ casinoTransaction[i].relatedExternalTransactionId =
                           req.transactionId} IN
    IF hits # {}
    THEN /\ out' = [kind |-> req.kind, transactionId |-> req.transactionId,
                    res |-> ReplayOf(casinoTransaction[CHOOSE i \in hits : TRUE]),
                    outcome |-> "replayed"]
         /\ handler' = [handler EXCEPT ![p] = Idle]
    ELSE /\ handler' = [handler EXCEPT ![p] = [Idle EXCEPT !.pc = "session",
                                                           !.req = req]]
         /\ out' = NoOut

\* A handler that resolves the session before it looks the id up.
SessionFirst(p, req) ==
    LET session == casinoGameSession(req.sessionToken) IN
    IF session = NoSession \/ session.userId # req.userId
    THEN /\ out' = [kind |-> req.kind, transactionId |-> req.transactionId,
                    res |-> SessionNotFound, outcome |-> "rejected"]
         /\ handler' = [handler EXCEPT ![p] = Idle]
    ELSE IF HasRow(req.transactionId)
    THEN /\ out' = [kind |-> req.kind, transactionId |-> req.transactionId,
                    res |-> ReplayOf(FindByExternalId(req.transactionId)),
                    outcome |-> "replayed"]
         /\ handler' = [handler EXCEPT ![p] = Idle]
    ELSE /\ handler' = [handler EXCEPT ![p] = [Idle EXCEPT !.pc = "session",
                                                           !.req = req]]
         /\ out' = NoOut

\* An idempotency lookup that keeps one key space for each kind of request.
LookupByKind(p, req) ==
    IF HasRow(req.transactionId)
           /\ FindByExternalId(req.transactionId).transactionType = req.kind
    THEN /\ out' = [kind |-> req.kind, transactionId |-> req.transactionId,
                    res |-> ReplayOf(FindByExternalId(req.transactionId)),
                    outcome |-> "replayed"]
         /\ handler' = [handler EXCEPT ![p] = Idle]
    ELSE /\ handler' = [handler EXCEPT ![p] = [Idle EXCEPT !.pc = "session",
                                                           !.req = req]]
         /\ out' = NoOut

\* debit, credit and rollback begin with the idempotency check: a hit is
\* answered from the row, a miss goes on to the session lookup.
Begin(p, req) ==
    IF HasRow(req.transactionId)
    THEN /\ out' = [kind |-> req.kind, transactionId |-> req.transactionId,
                    res |-> ReplayOf(FindByExternalId(req.transactionId)),
                    outcome |-> "replayed"]
         /\ handler' = [handler EXCEPT ![p] = Idle]
    ELSE /\ handler' = [handler EXCEPT ![p] = [Idle EXCEPT !.pc = "session",
                                                           !.req = req]]
         /\ out' = NoOut

\* A request that verifyCasinoSignature let through arrives and the handler
\* makes its idempotency check.
Start(p, req) ==
    /\ Running(p, "idle")
    /\ Begin(p, req)
    /\ Unchanged /\ UNCHANGED <<openingBalance, providerGameRound, providerBet,
                   simulation, env, verification, insufficient>>

\* Bet bounds that shut their end points out.
ExclusiveBounds(game, amount) == amount <= game.minBet \/ amount >= game.maxBet

\* The bet bounds of the session's game.
OutOfRange(game, amount) == amount < game.minBet \/ amount > game.maxBet

\* A session check that looks at the token alone.
TokenOnly(session, userId) == session = NoSession

\* if (!session || session.userId !== userId)
SessionMissing(session, userId) ==
    session = NoSession \/ session.userId # userId

\* Session resolution and, for a debit, the bet bounds.  The session includes
\* its wallet row; only rollback reads that copy of the balance later.
FindSession(p) ==
    LET r == handler[p].req
        session == casinoGameSession(r.sessionToken) IN
    /\ Running(p, "session")
    /\ IF SessionMissing(session, r.userId)
       THEN Respond(p, SessionNotFound, "rejected")
       ELSE IF r.kind = "debit" /\ OutOfRange(session.game, r.amount)
       THEN Respond(p, AmountOutOfRange, "rejected")
       ELSE /\ handler' =
                [handler EXCEPT
                   ![p].pc = IF r.kind = "rollback" THEN "findOriginal" ELSE "txRead",
                   ![p].sessionBalance =
                       IF r.kind = "rollback"
                       THEN playableBalance[session.walletId] ELSE 0]
            /\ out' = NoOut
    /\ Unchanged /\ UNCHANGED <<openingBalance, providerGameRound, providerBet,
                   simulation, env, verification, insufficient>>

\* A check that lets every row through.
AnyRow(row) == TRUE

\* Only bets can be rolled back.
IsDebit(row) == row.transactionType = "debit"

\* rollback looks the original transaction up.
FindOriginal(p) ==
    LET r == handler[p].req IN
    /\ Running(p, "findOriginal")
    /\ IF ~HasRow(r.originalTransactionId)
       THEN Goto(p, "tombstone")
       ELSE IF ~IsDebit(FindByExternalId(r.originalTransactionId))
       THEN Respond(p, InvalidRollbackTarget, "rejected")
       ELSE /\ handler' =
                [handler EXCEPT
                   ![p].pc = "hasPayout",
                   ![p].sessionBalance = 0,
                   ![p].originalAmount =
                       FindByExternalId(r.originalTransactionId).amount]
            /\ out' = NoOut
    /\ Unchanged /\ UNCHANGED <<openingBalance, providerGameRound, providerBet,
                   simulation, env, verification, insufficient>>

\* rollback inserts the tombstone row, outside any transaction, from the
\* balance the session lookup returned.
CreateTombstone(p) ==
    LET r == handler[p].req IN
    /\ Running(p, "tombstone")
    /\ \A q \in Procs \ {p} : ~PendingInsert(q, r.transactionId)
    /\ IF UniqueViolation(r.transactionId)
       THEN /\ Respond(p, InternalError, "rejected")
            /\ UNCHANGED <<casinoTransaction, accepted>>
       ELSE /\ casinoTransaction' = casinoTransactionCreate(TombstoneRow(p))
            /\ Respond(p, Http(200, TombstoneRow(p).responseCache), "applied")
            /\ accepted' = [accepted EXCEPT ![r.transactionId] =
                                Http(200, TombstoneRow(p).responseCache)]
    /\ UNCHANGED <<playableBalance, walletWrites, openingBalance, providerGameRound, providerBet,
                   simulation, env, verification,
                   insufficient>>

\* rollback checks whether the round of the request has a payout.
FindPayout(p) ==
    /\ Running(p, "hasPayout")
    /\ IF RoundHasCredit(handler[p].req.roundId)
       THEN Respond(p, RollbackAfterPayout, "rejected")
       ELSE Goto(p, "txRead")
    /\ Unchanged /\ UNCHANGED <<openingBalance, providerGameRound, providerBet,
                   simulation, env, verification, insufficient>>

\* A funds check that also refuses a balance equal to the amount.
NeedsMoreThanAmount(p, balance) == balance <= handler[p].req.amount

\* A funds check that keeps refusing an id it refused before.
RefusedBefore(p, balance) ==
    \/ balance < handler[p].req.amount
    \/ handler[p].req.transactionId \in insufficient

\* debit: if (wallet.playableBalance < debitAmount) throw INSUFFICIENT_FUNDS.
LacksFunds(p, balance) == balance < handler[p].req.amount

\* prisma.$transaction begins and reads the wallet row; a debit checks the
\* funds against what it read.
TxRead(p) ==
    LET r == handler[p].req
        wallet == playableBalance[WalletOf(p)] IN
    /\ Running(p, "txRead")
    /\ IF r.kind = "debit" /\ LacksFunds(p, wallet)
       THEN /\ Respond(p, InsufficientFunds, "rejected")
            /\ insufficient' = insufficient \cup {r.transactionId}
       ELSE /\ handler' = [handler EXCEPT ![p].pc = "txUpdate",
                                          ![p].walletBalance = wallet]
            /\ out' = NoOut
            /\ insufficient' = insufficient
    /\ Unchanged /\ UNCHANGED <<openingBalance, providerGameRound, providerBet,
                   simulation, env, verification>>

\* tx.casinoWallet.update({ data: { playableBalance: newBalance } }): waits for
\* the row lock, then writes the value computed from the earlier read.
TxUpdate(p) ==
    /\ Running(p, "txUpdate")
    /\ \A q \in Procs \ {p} : ~HoldsRowLock(q, WalletOf(p))
    /\ Goto(p, "txCreate")
    /\ Unchanged /\ UNCHANGED <<openingBalance, providerGameRound, providerBet,
                   simulation, env, verification, insufficient>>

\* A failed transaction whose wallet update stays applied.
NotRolledBack(p) == [playableBalance EXCEPT ![WalletOf(p)] = newBalance(p)]

\* What the wallets hold after a transaction that had updated its wallet is
\* rolled back.
RolledBack(p) == playableBalance

\* tx.casinoTransaction.create(): waits for a pending insert of the same key;
\* a committed row with the key makes it throw, and the transaction rolls back.
TxCreate(p) ==
    LET r == handler[p].req IN
    /\ Running(p, "txCreate")
    /\ \A q \in Procs \ {p} : ~PendingInsert(q, r.transactionId)
    /\ IF UniqueViolation(r.transactionId)
       THEN /\ Respond(p, InternalError, "rejected")
            /\ playableBalance' = RolledBack(p)
       ELSE /\ Goto(p, "txCommit")
            /\ playableBalance' = playableBalance
    /\ UNCHANGED <<casinoTransaction, walletWrites, accepted, openingBalance, providerGameRound, providerBet,
                   simulation,
                   env, verification, insufficient>>

\* The callback returns: COMMIT makes the wallet update and the row visible
\* together, and the handler sends the payload.
TxCommit(p) ==
    LET r == handler[p].req IN
    /\ Running(p, "txCommit")
    /\ playableBalance' = [playableBalance EXCEPT ![WalletOf(p)] = newBalance(p)]
    /\ casinoTransaction' = casinoTransactionCreate(TransactionRow(p))
    /\ walletWrites' = [walletWrites EXCEPT ![r.transactionId] = @ + 1]
    /\ Respond(p, Http(200, TransactionRow(p).responseCache), "applied")
    /\ accepted' = [accepted EXCEPT ![r.transactionId] =
                        Http(200, TransactionRow(p).responseCache)]
    /\ UNCHANGED <<openingBalance, providerGameRound, providerBet,
                   simulation, env, verification, insufficient>>

\* res.json() has sent the response; the turn of the event loop ends.
Sent ==
    /\ out # NoOut
    /\ out' = NoOut
    /\ UNCHANGED <<playableBalance, casinoTransaction, handler, openingBalance, providerGameRound, providerBet,
                   simulation,
                   env, verification, walletWrites, accepted, insufficient>>

\* A balance answer that reports what the wallet was created with.
OpeningBalancePayload(userId, w) ==
    [userId |-> userId, balance |-> BigIntToString(openingBalance[w]),
     currency |-> currencyCode(w)]

\* What getBalance answers: the balance and currency of the wallet row the
\* session lookup included.
balancePayload(userId, w) ==
    [userId |-> userId, balance |-> BigIntToString(playableBalance[w]),
     currency |-> currencyCode(w)]

\* getBalance begins with its session lookup.
BeginBalance(p, req) ==
    /\ handler' = [handler EXCEPT ![p] = [Idle EXCEPT !.pc = "getBalance",
                                                      !.req = req]]
    /\ out' = NoOut

\* A getBalance request arrives; the handler awaits its session lookup.
GetBalanceStart(p, cred) ==
    /\ Running(p, "idle")
    /\ BeginBalance(p, Request("getBalance", cred, NoId, NoId, 0, NoId, NoId))
    /\ Unchanged /\ UNCHANGED <<openingBalance, providerGameRound, providerBet,
                   simulation, env, verification, insufficient>>

\* getBalance: the session lookup returns and the handler answers.
GetBalance(p) ==
    LET r == handler[p].req
        session == casinoGameSession(r.sessionToken) IN
    /\ Running(p, "getBalance")
    /\ IF session = NoSession \/ session.userId # r.userId
       THEN Respond(p, SessionNotFound, "rejected")
       ELSE Respond(p, Http(200, balancePayload(r.userId, session.walletId)),
                    "read")
    /\ Unchanged /\ UNCHANGED <<openingBalance, providerGameRound, providerBet,
                   simulation, env, verification, insufficient>>

\* ------------------------------------------------------------- signatures

\* JSON.stringify(body): the keys and values of the body in the order the
\* sender wrote them, a number as its decimal digits.  The path of the
\* request (kind) is not part of the body.
JSONStringify(body) ==
    <<"sessionToken", body.sessionToken, "userId", body.userId,
      "transactionId", body.transactionId, "roundId", body.roundId, "amount">>
    \o BigIntToString(body.amount)
    \o <<"relatedTransactionId", body.relatedTransactionId,
         "originalTransactionId", body.originalTransactionId>>

\* crypto.createHmac("sha256", secret).update(payload).digest("hex"): two
\* digests are equal only for the same key and the same payload; digest("hex")
\* writes lower-case hex digits.
signBody(body, secret) ==
    [form |-> "hex", key |-> secret, payload |-> JSONStringify(body)]

\* A header that was not sent, one sent empty, one that holds no hex digit.
Undefined == [form |-> "undefined", key |-> NoSecret, payload |-> <<>>]
EmptyHeader == [form |-> "empty", key |-> NoSecret, payload |-> <<>>]
NotHex == [form |-> "notHex", key |-> NoSecret, payload |-> <<>>]

\* Buffer.from(text, "hex"): reads hex digits of either case up to the first
\* character that is none; a whole digest gives 32 bytes, its first half 16,
\* no hex digit at all an empty buffer.
BufferFromHex(text) ==
    CASE text.form \in {"hex", "HEX", "hex+junk"} ->
             [length |-> 32, key |-> text.key, payload |-> text.payload]
      [] text.form = "half" ->
             [length |-> 16, key |-> text.key, payload |-> text.payload]
      [] OTHER -> [length |-> 0, key |-> NoSecret, payload |-> <<>>]

\* A verification that compares the lengths of the two buffers and no more.
LengthOnly(providedSignature, body, secret) ==
    IF providedSignature.form \in {"undefined", "empty"} THEN FALSE
    ELSE BufferFromHex(providedSignature).length =
             BufferFromHex(signBody(body, secret)).length

\* A verification that lets every signature through.
AcceptAny(providedSignature, body, secret) == TRUE

\* verifySignature of lib/hmac.
verifySignature(providedSignature, body, secret) ==
    IF providedSignature.form \in {"undefined", "empty"} THEN FALSE
    ELSE LET providedBuffer == BufferFromHex(providedSignature)
             expectedBuffer == BufferFromHex(signBody(body, secret)) IN
         IF providedBuffer.length # expectedBuffer.length THEN FALSE
         ELSE providedBuffer = expectedBuffer

\* req.body: the fields of the message without its headers.
Body(m) == [f \in DOMAIN NoReq |-> m[f]]

\* A request on the wire: the parsed body, its path as kind, and the two
\* signature headers.
Message(body, casinoSignature, providerSignature) ==
    body @@ [xCasinoSignature |-> casinoSignature,
             xProviderSignature |-> providerSignature]

\* callCasino of the provider: the body signed with the casino secret the
\* provider holds, in x-casino-signature.
callCasino(casinoSecret, body) ==
    Message(body, signBody(body, casinoSecret), Undefined)

\* The casino secret in the casinos row of the provider, as the seed wrote it.
DefaultCasinoSecret == "casino_secret_key_change_in_production"
casinoSecret(e) ==
    IF e.CASINO_SECRET = NoSecret THEN DefaultCasinoSecret ELSE e.CASINO_SECRET

\* The payload launchGame sends to /provider/launch.
launchPayload == Request("launch", <<"s1", "u1">>, NoId, NoId, 0, NoId, NoId)

\* launchGame of the casino: the payload signed with PROVIDER_SECRET, in
\* x-provider-signature.
launchGame(e) ==
    Message(launchPayload, Undefined, signBody(launchPayload, e.PROVIDER_SECRET))

\* The bodies that reach the two routers.
AuthBodies ==
    RequestsFor(<<"s1", "u1">>, {"t1", "t2"}, {"r1"}, {minBet}, {"t1"})
    \cup {Request("getBalance", <<"s1", "u1">>, NoId, NoId, 0, NoId, NoId),
          launchPayload}

\* Another body than the one sent.
OtherBody(body) == [body EXCEPT !.amount = body.amount + 1]

\* What a signature header may hold for a body: nothing, or a digest under any
\* key, of this body or of another, as produced, in upper case, followed by
\* other characters, or cut in half.
Signatures(body) ==
    {Undefined, EmptyHeader, NotHex}
    \cup {[form |-> f, key |-> k, payload |-> JSONStringify(b)] :
             f \in {"hex", "HEX", "hex+junk", "half"}, k \in Keys,
             b \in {body, OtherBody(body)}}

\* The messages that may arrive: the signature in the header of either
\* direction, the other header absent or holding the same value.
Messages ==
    UNION {{Message(body, sig, Undefined), Message(body, Undefined, sig),
            Message(body, sig, sig)} :
               <<body, sig>> \in {<<b, g>> \in AuthBodies \X UNION {Signatures(b) : b \in AuthBodies} :
                                     g \in Signatures(b)}}

InvalidSignature == Http(401, [error |-> "Invalid signature"])
Misconfigured == Http(500, [error |-> "Server misconfiguration"])

\* A request arrives at the app; express.json reads and parses its body.
Receive(p, m) ==
    /\ Running(p, "idle")
    /\ handler' = [handler EXCEPT ![p] = [Idle EXCEPT !.pc = "gate", !.req = m]]
    /\ out' = NoOut
    /\ Unchanged /\ UNCHANGED <<openingBalance, providerGameRound, providerBet,
                   simulation, env, verification, insufficient>>

\* A provider gate that verifies against the secret of the casino routes.
casinoSecretOf(e) == e.CASINO_SECRET

\* The secret verifyProviderSignature reads.
providerSecretOf(e) == e.PROVIDER_SECRET

\* The middleware of the route runs: verifyCasinoSignature in front of
\* getBalance, debit, credit and rollback, verifyProviderSignature in front of
\* launch; next() runs the handler up to its first await.  The tables of the
\* provider are not part of the state: its launch handler only answers.
Gate(p) ==
    LET m == handler[p].req
        provider == m.kind = "launch"
        secret == IF provider THEN providerSecretOf(env) ELSE env.CASINO_SECRET
        signature == IF provider THEN m.xProviderSignature
                     ELSE m.xCasinoSignature IN
    /\ Running(p, "gate")
    /\ IF secret = NoSecret
       THEN Respond(p, Misconfigured, "rejected")
       ELSE IF ~verifySignature(signature, Body(m), secret)
       THEN Respond(p, InvalidSignature, "rejected")
       ELSE IF provider
       THEN Respond(p, Http(200, [status |-> "ok"]), "invoked")
       ELSE IF m.kind = "getBalance"
       THEN BeginBalance(p, Body(m))
       ELSE Begin(p, Body(m))
    /\ Unchanged /\ UNCHANGED <<openingBalance, providerGameRound, providerBet,
                   simulation, env, verification, insufficient>>

Step(p) ==
    \/ FindSession(p)
    \/ FindOriginal(p)
    \/ CreateTombstone(p)
    \/ FindPayout(p)
    \/ TxRead(p)
    \/ TxUpdate(p)
    \/ TxCreate(p)
    \/ TxCommit(p)

Next ==
    \/ \E p \in Procs : (\E req \in Requests : Start(p, req)) \/ Step(p)
    \/ Sent

Spec == Init /\ [][Next]_vars

\* One handler at a time: every request is served to its response before the
\* next one arrives.
SeqStep ==
    \/ FindSession(1)
    \/ FindOriginal(1)
    \/ CreateTombstone(1)
    \/ FindPayout(1)
    \/ TxRead(1)
    \/ TxUpdate(1)
    \/ TxCreate(1)
    \/ TxCommit(1)

SeqNext == (\E req \in SeqRequests : Start(1, req)) \/ SeqStep \/ Sent

SeqSpec == Init /\ [][SeqNext]_vars

\* One handler at a time, over three transaction ids and two rounds.
RoundNext == (\E req \in RoundRequests : Start(1, req)) \/ SeqStep \/ Sent

RoundSpec == Init /\ [][RoundNext]_vars

\* One handler at a time, on the seeded wallet and the session of game1.
BetNext == (\E req \in BetRequests : Start(1, req)) \/ SeqStep \/ Sent

BetSpec == SeedInit /\ [][BetNext]_vars

\* One handler at a time, on the seeded wallet: the callbacks of
\* simulateRound, in any order and any number of times.
SeedNext == (\E req \in SeedRequests : Start(1, req)) \/ SeqStep \/ Sent

SeedSpec == SeedInit /\ [][SeedNext]_vars

\* Handlers that run concurrently, getBalance among them.
BalanceNext ==
    \/ \E p \in Procs :
           \/ \E req \in BalanceRequests : Start(p, req)
           \/ \E cred \in Credentials : GetBalanceStart(p, cred)
           \/ GetBalance(p)
           \/ Step(p)
    \/ Sent

BalanceSpec == Init /\ [][BalanceNext]_vars

\* What the provider sends, signed, for the requests of a sequence: the
\* request stays in sight from its arrival to the handler's first lookup.
ReplayMessages == {callCasino(CasinoSecret, body) : body \in SeqRequests}

\* One handler at a time, each request arriving through the middleware.
ReplayNext ==
    \/ \E m \in ReplayMessages : Receive(1, m)
    \/ Gate(1)
    \/ SeqStep
    \/ Sent

ReplaySpec == Init /\ [][ReplayNext]_vars

\* One handler at a time, two users with a wallet each.
WalletNext == (\E req \in WalletRequests : Start(1, req)) \/ SeqStep \/ Sent

WalletSpec == WalletInit /\ [][WalletNext]_vars

\* Two handlers serve requests on one wallet, with ids that collide.
LiveRequests ==
    RequestsFor(<<"s1", "u1">>, {"t1", "t2"}, {"r1"}, {minBet}, {"t1"})

LiveNext ==
    \/ \E p \in Procs : (\E req \in LiveRequests : Start(p, req)) \/ Step(p)
    \/ Sent

\* The event loop runs every continuation whose promise has settled, in
\* order, and PostgreSQL hands a released lock to the transaction that waits
\* for it: a handler that can go on again and again does go on, and a
\* response that is being sent is sent.
LiveSpec ==
    /\ Init
    /\ [][LiveNext]_vars
    /\ \A p \in Procs : SF_vars(Step(p))
    /\ WF_vars(Sent)

\* The session each of the two concurrent handlers is called through: one of
\* wallet w1, one of wallet w2.
SessionOfProc(p) == IF p = 1 THEN <<"s1", "u1">> ELSE <<"s3", "u2">>

\* A request on one wallet runs alongside a request on the other.
IsolationNext ==
    \/ \E p \in Procs :
           \/ \E req \in RequestsFor(SessionOfProc(p), {"t1", "t2"}, {"r1"},
                                     {minBet}, {"t1"}) : Start(p, req)
           \/ Step(p)
    \/ Sent

IsolationSpec == WalletInit /\ [][IsolationNext]_vars

\* One handler at a time, the caller free in the amount it sends.
AnyAmountNext ==
    (\E req \in AnyAmountRequests : Start(1, req)) \/ SeqStep \/ Sent

AnyAmountSpec == Init /\ [][AnyAmountNext]_vars

\* Handlers that run concurrently within one round.
RaceNext ==
    \/ \E p \in Procs : (\E req \in RaceRequests : Start(p, req)) \/ Step(p)
    \/ Sent

RaceSpec == Init /\ [][RaceNext]_vars

\* One handler at a time behind the signature middleware, the process started
\* in any environment.
AuthInit ==
    \E opening \in OpeningsOf({"w1"}), e \in Envs : Boot(opening, e)

AuthNext ==
    \/ \E m \in Messages : Receive(1, m)
    \/ Gate(1)
    \/ GetBalance(1)
    \/ SeqStep
    \/ Sent

AuthSpec == AuthInit /\ [][AuthNext]_vars

\* Every signature a header may hold for some body.
AllSignatures == UNION {Signatures(body) : body \in AuthBodies}

\* A call of verifySignature with any signature, any body and any secret.
VerifyInit ==
    /\ env = Configured
    /\ openingBalance = [w \in Wallets |-> 0]
    /\ playableBalance = openingBalance
    /\ casinoTransaction = <<>>
    /\ handler = [p \in Procs |-> Idle]
    /\ out = NoOut
    /\ walletWrites = [t \in AllTxIds |-> 0]
    /\ accepted = [t \in AllTxIds |-> NoRes]
    /\ insufficient = {}
    /\ providerGameRound = NoRound
    /\ providerBet = <<>>
    /\ simulation = NotSimulating
    /\ \E sig \in AllSignatures, body \in AuthBodies, secret \in Keys :
           verification = [called |-> FALSE, providedSignature |-> sig,
                           body |-> body, secret |-> secret]

\* The call returns.
Verify ==
    /\ ~verification.called
    /\ verification' =
           [verification EXCEPT !.called = TRUE] @@
           [result |-> verifySignature(verification.providedSignature,
                                       verification.body, verification.secret)]
    /\ UNCHANGED <<playableBalance, casinoTransaction, handler, out,
                   openingBalance, env, walletWrites, accepted, insufficient,
                   providerGameRound, providerBet, simulation>>

VerifyNext == Verify

VerifySpec == VerifyInit /\ [][VerifyNext]_vars

\* ---------------------------------------------------------------- provider

\* The game simulateRound plays: the provider's row of the session's game.
providerGame == [minBet |-> minBet]

firstBetAmount == providerGame.minBet
secondBetAmount == providerGame.minBet
payoutAmount == firstBetAmount * 2

\* The roundId of the simulated round and the session it is played through.
roundId == "r1"
SimulateInput == <<"s1", "u1">>

\* The calls of simulateRound, in the order it makes them, and the update
\* that closes the round.
SimulationSteps ==
    <<"balance_check", "first_bet_debit", "second_bet_debit",
      "second_bet_rollback", "payout_credit", "final_balance_check",
      "idempotency_retry_first_bet", "post_retry_balance",
      "tombstone_rollback", "rollback_rejected_after_payout", "close">>

BalanceChecks == {"balance_check", "final_balance_check", "post_retry_balance"}
RecordedSteps ==
    {"first_bet_debit", "second_bet_debit", "second_bet_rollback",
     "payout_credit"}

StepAfter(step) ==
    SimulationSteps[1 + CHOOSE i \in 1..(Len(SimulationSteps) - 1) :
                            SimulationSteps[i] = step]

\* The body simulateRound posts to the casino at each step.
CallOf(step) ==
    CASE step \in BalanceChecks ->
             Request("getBalance", SimulateInput, NoId, NoId, 0, NoId, NoId)
      [] step \in {"first_bet_debit", "idempotency_retry_first_bet"} ->
             Request("debit", SimulateInput, "firstBet", roundId,
                     firstBetAmount, NoId, NoId)
      [] step = "second_bet_debit" ->
             Request("debit", SimulateInput, "secondBet", roundId,
                     secondBetAmount, NoId, NoId)
      [] step = "second_bet_rollback" ->
             Request("rollback", SimulateInput, "rollback", roundId, 0, NoId,
                     "secondBet")
      [] step = "payout_credit" ->
             Request("credit", SimulateInput, "payout", roundId, payoutAmount,
                     "firstBet", NoId)
      [] step = "tombstone_rollback" ->
             Request("rollback", SimulateInput, "tombstone", roundId, 0, NoId,
                     "non-existent-transaction-id")
      [] OTHER ->
             Request("rollback", SimulateInput, "rejectedRollback", roundId, 0,
                     NoId, "firstBet")

\* The amount simulateRound writes on the provider_bets row of a step.
BetAmount(step) ==
    CASE step = "first_bet_debit" -> firstBetAmount
      [] step = "payout_credit" -> payoutAmount
      [] OTHER -> secondBetAmount

\* prisma.providerBet.create({ data }) after the response of a step.
ProviderBetRow(step, response) ==
    [transactionId |-> CallOf(step).transactionId,
     betType |-> CallOf(step).kind,
     amount |-> BetAmount(step),
     status |-> IF response.code = 200 THEN "accepted" ELSE "failed",
     responseCache |-> response.body]

\* simulateRound begins: prisma.providerGameRound.create({ status: "open" }).
CreateRound ==
    /\ simulation = NotSimulating
    /\ providerGameRound' = [NoRound EXCEPT !.status = "open"]
    /\ simulation' = [step |-> SimulationSteps[1], awaits |-> FALSE]
    /\ UNCHANGED <<playableBalance, casinoTransaction, handler, out,
                   openingBalance, env, verification, walletWrites, accepted, insufficient,
                   providerBet>>

\* callCasino posts the body of the step; the casino's handler takes it up.
SimulateFetch ==
    /\ simulation.step \in {SimulationSteps[i] : i \in 1..(Len(SimulationSteps) - 1)}
    /\ ~simulation.awaits
    /\ Running(1, "idle")
    /\ IF simulation.step \in BalanceChecks
       THEN BeginBalance(1, CallOf(simulation.step))
       ELSE Begin(1, CallOf(simulation.step))
    /\ simulation' = [simulation EXCEPT !.awaits = TRUE]
    /\ Unchanged
    /\ UNCHANGED <<openingBalance, env, verification, insufficient, providerGameRound,
                   providerBet>>

\* fetch resolves: simulateRound records the bet of the step, throws when
\* the balance check or the first bet was refused, and goes on otherwise.
SimulateResume ==
    LET step == simulation.step
        ok == out.res.code = 200 IN
    /\ simulation.awaits
    /\ out # NoOut
    /\ out' = NoOut
    /\ providerBet' = IF step \in RecordedSteps
                      THEN Append(providerBet, ProviderBetRow(step, out.res))
                      ELSE providerBet
    /\ simulation' =
           IF step \in {"balance_check", "first_bet_debit"} /\ ~ok
           THEN [step |-> "thrown", awaits |-> FALSE]
           ELSE [step |-> StepAfter(step), awaits |-> FALSE]
    /\ UNCHANGED <<playableBalance, casinoTransaction, handler, openingBalance,
                   env, verification, walletWrites, accepted, insufficient,
                   providerGameRound>>

\* Update round totals: prisma.providerGameRound.update({ status: "closed",
\* totalBetAmount: totalBet, totalPayoutAmount: totalPayout }).
CloseRound ==
    /\ simulation = [step |-> "close", awaits |-> FALSE]
    /\ providerGameRound' = [status |-> "closed",
                             totalBetAmount |-> firstBetAmount,
                             totalPayoutAmount |-> payoutAmount]
    /\ simulation' = [step |-> "completed", awaits |-> FALSE]
    /\ UNCHANGED <<playableBalance, casinoTransaction, handler, out,
                   openingBalance, env, verification, walletWrites, accepted, insufficient,
                   providerBet>>

\* A query of the transaction fails: the callback throws, PostgreSQL rolls
\* the transaction back, and the catch of the handler answers 500.
Throws(p) ==
    /\ handler[p].pc \in {"txRead", "txUpdate", "txCreate", "txCommit"}
    /\ out = NoOut
    /\ Respond(p, InternalError, "rejected")
    /\ Unchanged
    /\ UNCHANGED <<openingBalance, env, verification, insufficient, providerGameRound,
                   providerBet, simulation>>

\* One simulated round against the casino, whose database may fail.
SimulateNext ==
    \/ CreateRound
    \/ SimulateFetch
    \/ SeqStep
    \/ GetBalance(1)
    \/ Throws(1)
    \/ SimulateResume
    \/ CloseRound

SimulateSpec == Init /\ [][SimulateNext]_vars

\* ------------------------------------------------------------------ claims

RowsOf(id) == {i \in Rows : casinoTransaction[i].externalTransactionId = id}

IsTombstone(row) == "tombstone" \in DOMAIN row.responseCache

\* C1: requests served one after the other: once a request with some
\* externalTransactionId has been accepted, every later request with that id
\* gets the very response the accepted one got, and its handling changes no
\* wallet balance and no row of the ledger; no id ever has more than one
\* committed wallet update.
IdempotentReplay ==
    [][/\ \A t \in TxIds : walletWrites'[t] <= 1
       /\ (out' # NoOut /\ accepted[out'.transactionId] # NoRes) =>
              /\ out'.res = accepted[out'.transactionId]
              /\ playableBalance' = playableBalance
              /\ casinoTransaction' = casinoTransaction]_vars

\* C1 witness: a replay is being answered with the cached balance while the
\* wallet has moved on since.
ReplayedStale ==
    /\ out.outcome = "replayed"
    /\ out.res = accepted[out.transactionId]
    /\ out.res.body.balance # BigIntToString(playableBalance["w1"])

\* C2: in every reachable state, under any interleaving of handlers, no two
\* rows of the ledger carry the same externalTransactionId and no id has more
\* than one committed wallet update.
OneRecordPerId ==
    /\ \A i, j \in Rows :
           casinoTransaction[i].externalTransactionId =
               casinoTransaction[j].externalTransactionId => i = j
    /\ \A t \in TxIds : walletWrites[t] <= 1

\* C2 witness: a transaction has updated its wallet and is about to insert a
\* row whose id was accepted in the meantime.
DuplicateAboutToInsert ==
    \E p \in Procs : /\ handler[p].pc = "txCreate"
                     /\ HasRow(handler[p].req.transactionId)

\* C3: a handler that passed the idempotency lookup and then finds, at its
\* insert, that a concurrent request with the same id committed first: its
\* step leaves the wallet balances and the ledger as the winner left them,
\* exactly one row has the id, and the wallet was updated once for the id
\* (not at all when the winner is a tombstone).
RaceLoserLeavesNoTrace ==
    [][\A p \in Procs :
         (/\ handler[p].pc \in {"txCreate", "tombstone"}
          /\ HasRow(handler[p].req.transactionId)
          /\ handler'[p].pc = "idle") =>
             LET id == handler[p].req.transactionId IN
             /\ playableBalance' = playableBalance
             /\ casinoTransaction' = casinoTransaction
             /\ Cardinality(RowsOf(id)) = 1
             /\ walletWrites'[id] =
                    IF IsTombstone(FindByExternalId(id)) THEN 0 ELSE 1]_vars

\* C3 witness: a debit lost the race on its id: it is answered with the
\* internal error after the winner's single wallet update.
RaceLost ==
    /\ out.res = InternalError
    /\ out.kind = "debit"
    /\ walletWrites[out.transactionId] = 1

\* The signed effect of a row on its wallet: -amount for a debit, +amount for a
\* credit and for the rollback of a debit, 0 for a tombstone (whose amount is 0).
Effect(row) ==
    IF row.transactionType = "debit" THEN 0 - row.amount ELSE row.amount

RECURSIVE SumEffects(_, _)
\* The effects of the first n rows that belong to wallet w, added up.
SumEffects(w, n) ==
    IF n = 0 THEN 0
    ELSE SumEffects(w, n - 1)
         + (IF casinoTransaction[n].walletId = w
            THEN Effect(casinoTransaction[n]) ELSE 0)

RECURSIVE BalanceBefore(_, _)
\* The balanceAfter of the last row of wallet w before row n, or the opening
\* balance when there is none.
BalanceBefore(w, n) ==
    IF n = 1 THEN openingBalance[w]
    ELSE IF casinoTransaction[n - 1].walletId = w
         THEN casinoTransaction[n - 1].balanceAfter
         ELSE BalanceBefore(w, n - 1)

\* C4 (as claimed): no lost update: whenever the funds of a wallet cover all
\* its accepted rows, its balance is its opening balance plus the effects of
\* every one of them.
NoLostUpdate ==
    \A w \in Wallets :
        openingBalance[w] + SumEffects(w, Len(casinoTransaction)) >= 0 =>
            playableBalance[w] =
                openingBalance[w] + SumEffects(w, Len(casinoTransaction))

\* C5 (as claimed): no overdraw: the accepted debits of a wallet never take
\* more than its opening balance plus what credits and rollbacks put in.
NoOverdraw ==
    \A w \in Wallets :
        openingBalance[w] + SumEffects(w, Len(casinoTransaction)) >= 0

\* C6 (as claimed): the balanceAfter of every row is the balanceAfter of the
\* previous row of its wallet (or the opening balance) plus the row's signed
\* effect, and the wallet's balance is the balanceAfter of its last row.
BalanceAfterChain ==
    /\ \A n \in Rows :
           casinoTransaction[n].balanceAfter =
               BalanceBefore(casinoTransaction[n].walletId, n)
                   + Effect(casinoTransaction[n])
    /\ \A w \in Wallets :
           playableBalance[w] = BalanceBefore(w, Len(casinoTransaction) + 1)

\* C7 (as claimed): payout lock: no rollback of a debit is accepted once a
\* credit row exists for the round of that debit.
PayoutLock ==
    \A j \in Rows :
        (/\ casinoTransaction[j].transactionType = "rollback"
         /\ ~IsTombstone(casinoTransaction[j])) =>
            \A k \in 1..(j - 1) :
                (casinoTransaction[k].externalTransactionId =
                     casinoTransaction[j].relatedExternalTransactionId) =>
                    ~\E i \in 1..(j - 1) :
                        /\ casinoTransaction[i].transactionType = "credit"
                        /\ casinoTransaction[i].externalRoundId =
                               casinoTransaction[k].externalRoundId

\* C8 (as claimed): a rollback with a resolving session whose
\* originalTransactionId has no row takes the tombstone branch, and as long as
\* that id has no row (and no concurrent request took the rollback's own id)
\* its insert always succeeds: it appends exactly one row
\* (rollback, amount 0, related id = originalTransactionId), leaves the wallet
\* balances as they are and answers 200 with tombstone = true and the wallet's
\* unchanged balance.
TombstoneContract ==
    [][\A p \in Procs :
         LET r == handler[p].req
             n == Len(casinoTransaction) IN
         /\ (/\ handler[p].pc = "findOriginal"
             /\ handler'[p] # handler[p]
             /\ ~HasRow(r.originalTransactionId)) => handler'[p].pc = "tombstone"
         /\ (/\ handler[p].pc = "tombstone"
             /\ handler'[p] # handler[p]
             /\ ~HasRow(r.originalTransactionId)
             /\ ~HasRow(r.transactionId)) =>
                /\ out'.res.code = 200
                /\ Len(casinoTransaction') = n + 1
                /\ SubSeq(casinoTransaction', 1, n) = casinoTransaction
                /\ casinoTransaction'[n + 1].transactionType = "rollback"
                /\ casinoTransaction'[n + 1].amount = 0
                /\ casinoTransaction'[n + 1].externalTransactionId = r.transactionId
                /\ casinoTransaction'[n + 1].relatedExternalTransactionId =
                       r.originalTransactionId
                /\ playableBalance' = playableBalance
                /\ IsTombstone([responseCache |-> out'.res.body])
                /\ out'.res.body.tombstone = TRUE
                /\ out'.res.body.balance =
                       BigIntToString(playableBalance[WalletOf(p)])]_vars

\* C9: a rollback that finds a row for its originalTransactionId which is not
\* a debit (a credit, a rollback, a tombstone) is answered with the
\* only-bets-can-be-rolled-back error, and that step changes no wallet balance
\* and no row of the ledger.
NonDebitTargetRejected ==
    [][\A p \in Procs :
         LET r == handler[p].req IN
         (/\ handler[p].pc = "findOriginal"
          /\ handler'[p] # handler[p]
          /\ HasRow(r.originalTransactionId)
          /\ FindByExternalId(r.originalTransactionId).transactionType # "debit")
         => /\ out'.res = InvalidRollbackTarget
            /\ handler'[p] = Idle
            /\ playableBalance' = playableBalance
            /\ casinoTransaction' = casinoTransaction]_vars

\* C9 witness: the rollback of a credit is being refused.
CreditRollbackRefused ==
    /\ out.res = InvalidRollbackTarget
    /\ \E i \in Rows : casinoTransaction[i].transactionType = "credit"
    /\ \A i \in Rows : casinoTransaction[i].transactionType = "credit"

\* C10: every step that changes a wallet balance or the ledger is the step in
\* which its handler answers 200 for an applied request; so no step of a
\* request that ends in an error, the failing one included, changes either.
FailureHasNoEffect ==
    [][(\/ playableBalance' # playableBalance
        \/ casinoTransaction' # casinoTransaction
        \/ (out' # NoOut /\ out'.res.code # 200)) =>
           /\ out' # NoOut
           /\ (out'.res.code # 200 =>
                   /\ playableBalance' = playableBalance
                   /\ casinoTransaction' = casinoTransaction)
           /\ (out'.res.code = 200 => out'.outcome = "applied")]_vars

\* C10 witness: a credit is being answered with the internal error after its
\* transaction had already updated the wallet row.
FailedAfterUpdate ==
    /\ out.res = InternalError
    /\ out.kind = "credit"

\* C11: atomic commit: under any interleaving, every step that changes a
\* wallet balance or the ledger appends exactly one row and registers that
\* row's cached response for its id; when the row is not a tombstone the same
\* step makes the one wallet update of that id visible and the row's
\* balanceAfter is the balance that step leaves; when it is a tombstone no
\* balance changes.  So no state shows a balance change without its row, or a
\* row without its cached response and its wallet update.
AtomicCommit ==
    [][(playableBalance' # playableBalance \/ casinoTransaction' # casinoTransaction) =>
           LET n == Len(casinoTransaction)
               row == casinoTransaction'[n + 1]
               id == row.externalTransactionId IN
           /\ Len(casinoTransaction') = n + 1
           /\ SubSeq(casinoTransaction', 1, n) = casinoTransaction
           /\ accepted[id] = NoRes
           /\ accepted' = [accepted EXCEPT ![id] = Http(200, row.responseCache)]
           /\ IF IsTombstone(row)
              THEN /\ playableBalance' = playableBalance
                   /\ walletWrites' = walletWrites
              ELSE /\ walletWrites' = [walletWrites EXCEPT ![id] = @ + 1]
                   /\ playableBalance' =
                          [playableBalance EXCEPT ![row.walletId] = row.balanceAfter]]_vars

\* C11 witness: a transaction has updated its wallet and inserted its row but
\* has not committed: the committed balance and ledger show neither.
UncommittedInvisible ==
    \E p \in Procs :
        /\ handler[p].pc = "txCommit"
        /\ handler[p].req.kind = "rollback"
        /\ newBalance(p) # playableBalance[WalletOf(p)]
        /\ ~HasRow(handler[p].req.transactionId)

\* C12: requests served one after the other: the step that refuses a debit for
\* insufficient funds writes no row and changes no balance, and the only
\* answers given without processing are replays of a row; so a later debit
\* with a refused id is processed from scratch: it is refused again only if
\* the balance it reads is still below its amount, otherwise it passes the
\* funds check and its commit lowers the balance by its amount and appends its
\* debit row.
FailuresNotCached ==
    [][/\ (out' # NoOut /\ out'.res = InsufficientFunds) =>
              /\ casinoTransaction' = casinoTransaction
              /\ playableBalance' = playableBalance
              /\ ~HasRow(out'.transactionId)
              /\ \E p \in Procs :
                     /\ handler[p].pc = "txRead"
                     /\ handler[p].req.transactionId = out'.transactionId
                     /\ playableBalance[WalletOf(p)] < handler[p].req.amount
       /\ (out' # NoOut /\ out'.outcome = "replayed") => HasRow(out'.transactionId)
       /\ \A p \in Procs :
              LET r == handler[p].req
                  n == Len(casinoTransaction) IN
              (r.kind = "debit" /\ r.transactionId \in insufficient
                   /\ handler'[p] # handler[p]) =>
                  /\ (handler[p].pc = "txRead"
                          /\ playableBalance[WalletOf(p)] >= r.amount) =>
                         handler'[p].pc = "txUpdate"
                  /\ handler[p].pc = "txCommit" =>
                         /\ playableBalance'[WalletOf(p)] =
                                playableBalance[WalletOf(p)] - r.amount
                         /\ Len(casinoTransaction') = n + 1
                         /\ casinoTransaction'[n + 1].externalTransactionId =
                                r.transactionId
                         /\ casinoTransaction'[n + 1].transactionType = "debit"
                         /\ out'.res.code = 200]_vars

\* C12 witness: a debit is being answered as applied under an id that an
\* earlier debit was refused with for insufficient funds.
RetryApplied ==
    /\ out.outcome = "applied"
    /\ out.kind = "debit"
    /\ out.transactionId \in insufficient

\* C14: under any interleaving, a debit whose amount exceeds the balance its
\* transaction reads is refused with insufficient funds and changes nothing;
\* one whose amount equals that balance passes the check, and its commit
\* leaves the wallet at 0; every committed debit leaves its wallet at a
\* non-negative balance.
DebitLeavesNonNegative ==
    [][\A p \in Procs :
         LET r == handler[p].req
             w == WalletOf(p) IN
         (r.kind = "debit" /\ handler'[p] # handler[p]) =>
             /\ (handler[p].pc = "txRead" /\ playableBalance[w] < r.amount) =>
                    /\ out'.res = InsufficientFunds
                    /\ playableBalance' = playableBalance
                    /\ casinoTransaction' = casinoTransaction
             /\ (handler[p].pc = "txRead" /\ playableBalance[w] = r.amount) =>
                    /\ handler'[p].pc = "txUpdate"
                    /\ handler'[p].walletBalance = r.amount
             /\ handler[p].pc = "txCommit" =>
                    /\ playableBalance'[w] >= 0
                    /\ out'.res.code = 200
                    /\ handler[p].walletBalance = r.amount =>
                           playableBalance'[w] = 0]_vars

\* C14 witness: a debit of the whole balance is being answered as applied and
\* the wallet is at 0.
WholeBalanceDebited ==
    /\ out.outcome = "applied"
    /\ out.kind = "debit"
    /\ openingBalance["w1"] > 0
    /\ playableBalance["w1"] = 0
    /\ Len(casinoTransaction) = 1
    /\ casinoTransaction[1].amount = openingBalance["w1"]

\* C13: a debit with a resolving session is answered with the out-of-range
\* error, and nothing is written, exactly when its amount is below minBet or
\* above maxBet of the session's game; with an amount equal to minBet or to
\* maxBet, or in between, it goes on to its transaction.
BetBoundsInclusive ==
    [][/\ \A p \in Procs :
              LET r == handler[p].req
                  session == casinoGameSession(r.sessionToken) IN
              (/\ r.kind = "debit"
               /\ handler[p].pc = "session"
               /\ handler'[p] # handler[p]
               /\ session.userId = r.userId) =>
                  IF r.amount < session.game.minBet \/ r.amount > session.game.maxBet
                  THEN /\ out'.res = AmountOutOfRange
                       /\ handler'[p] = Idle
                       /\ playableBalance' = playableBalance
                       /\ casinoTransaction' = casinoTransaction
                  ELSE /\ out' = NoOut
                       /\ handler'[p].pc = "txRead"
       /\ (out' # NoOut /\ out'.res = AmountOutOfRange) =>
              \E p \in Procs :
                  LET r == handler[p].req
                      game == casinoGameSession(r.sessionToken).game IN
                  /\ handler[p].pc = "session"
                  /\ r.kind = "debit"
                  /\ r.amount \notin game.minBet..game.maxBet]_vars

\* C13 witness: debits of exactly minBet and of exactly maxBet have been
\* applied, and a debit of maxBet + 1 is being refused as out of range.
EdgesAcceptedBeyondRefused ==
    /\ Len(casinoTransaction) = 2
    /\ casinoTransaction[1].transactionType = "debit"
    /\ casinoTransaction[1].amount = game1.minBet
    /\ casinoTransaction[2].transactionType = "debit"
    /\ casinoTransaction[2].amount = game1.maxBet
    /\ out.res = AmountOutOfRange
    /\ out.kind = "debit"

\* C15 (as claimed): a credit with an unseen id and a resolving session is
\* never refused for its amount or for the balance: after the session lookup
\* it goes to its transaction whatever its amount, it passes the read of the
\* wallet whatever the balance, and its commit raises the balance of the
\* wallet by exactly its amount and appends one credit row.
CreditAddsAmount ==
    [][\A p \in Procs :
         LET r == handler[p].req
             w == WalletOf(p)
             n == Len(casinoTransaction) IN
         (r.kind = "credit" /\ handler'[p] # handler[p]) =>
             /\ (handler[p].pc = "session"
                     /\ casinoGameSession(r.sessionToken).userId = r.userId) =>
                    handler'[p].pc = "txRead"
             /\ handler[p].pc = "txRead" => handler'[p].pc = "txUpdate"
             /\ handler[p].pc = "txCommit" =>
                    /\ playableBalance'[w] = playableBalance[w] + r.amount
                    /\ Len(casinoTransaction') = n + 1
                    /\ casinoTransaction'[n + 1].transactionType = "credit"
                    /\ casinoTransaction'[n + 1].amount = r.amount
                    /\ casinoTransaction'[n + 1].externalTransactionId =
                           r.transactionId]_vars

RECURSIVE SumOf(_, _, _)
\* The amounts of the rows of wallet w, among the first n, that are in rows.
SumOf(w, n, rows) ==
    IF n = 0 THEN 0
    ELSE SumOf(w, n - 1, rows)
         + (IF casinoTransaction[n].walletId = w /\ n \in rows
            THEN casinoTransaction[n].amount ELSE 0)

IsCreditRow(n) == casinoTransaction[n].transactionType = "credit"
IsDebitRow(n) == casinoTransaction[n].transactionType = "debit"
IsRollbackRow(n) == casinoTransaction[n].transactionType = "rollback"

\* Row n is a debit that no rollback row reverses (a tombstone reverses
\* nothing).
IsDebitNotRolledBack(n) ==
    /\ IsDebitRow(n)
    /\ ~\E m \in Rows :
           /\ IsRollbackRow(m)
           /\ ~IsTombstone(casinoTransaction[m])
           /\ casinoTransaction[m].relatedExternalTransactionId =
                  casinoTransaction[n].externalTransactionId

LedgerIds == [i \in Rows |-> casinoTransaction[i].externalTransactionId]

\* The steps of the seed scenario that write a row, in its order.
ScenarioIds == <<"firstBet", "secondBet", "rollback", "payout", "tombstone">>

\* C16: the seed scenario: from 1,000,000 the first bet of 1,000 leaves
\* 999,000, the second 998,000, the rollback of the second 999,000, the payout
\* of 2,000 in the same round 1,001,000; from then on a retry of the first bet
\* is answered with its cached payload, balance "999000", a rollback of an id
\* that does not exist is answered as a tombstone, and a rollback of the first
\* bet is refused because the round has a payout, each leaving 1,001,000.
SeedScenario ==
    LET n == Len(casinoTransaction)
        balance == playableBalance["w1"] IN
    /\ n = 0 => balance = 1000000
    /\ LedgerIds = SubSeq(ScenarioIds, 1, 1) => balance = 999000
    /\ LedgerIds = SubSeq(ScenarioIds, 1, 2) => balance = 998000
    /\ LedgerIds = SubSeq(ScenarioIds, 1, 3) => balance = 999000
    /\ (n >= 4 /\ SubSeq(LedgerIds, 1, 4) = SubSeq(ScenarioIds, 1, 4)) =>
           /\ balance = 1001000
           /\ (out # NoOut /\ out.transactionId = "firstBet") =>
                  /\ out.res.code = 200
                  /\ out.res.body.balance = <<"9", "9", "9", "0", "0", "0">>
           /\ (out # NoOut /\ out.transactionId = "tombstone") =>
                  /\ out.res.code = 200
                  /\ out.res.body.tombstone = TRUE
                  /\ out.res.body.balance = <<"1", "0", "0", "1", "0", "0", "0">>
           /\ (out # NoOut /\ out.transactionId = "rejectedRollback") =>
                  out.res = RollbackAfterPayout
           /\ ~HasRow("rejectedRollback")
           /\ n = 5 =>
                  /\ casinoTransaction[5].externalTransactionId = "tombstone"
                  /\ casinoTransaction[5].amount = 0
                  /\ casinoTransaction[5].balanceAfter = 1001000

\* C16 witness: the scenario has run to its last step: the five rows are in
\* the ledger in its order and the rollback of the first bet is being refused.
ScenarioDone ==
    /\ LedgerIds = ScenarioIds
    /\ out.transactionId = "rejectedRollback"
    /\ out.res = RollbackAfterPayout
    /\ playableBalance["w1"] = 1001000

\* C20: getBalance is read-only: under any interleaving with mutations, no
\* step of a getBalance handler, from arrival to answer, with a resolving
\* session or not, changes a wallet balance or the ledger; with a resolving
\* session it answers 200 with the committed balance of the wallet and its
\* currency, otherwise with the session-not-found error.
GetBalanceReadOnly ==
    [][\A p \in Procs :
         (/\ handler'[p] # handler[p]
          /\ "getBalance" \in {handler[p].req.kind, handler'[p].req.kind}) =>
             LET r == handler[p].req
                 session == casinoGameSession(r.sessionToken) IN
             /\ playableBalance' = playableBalance
             /\ casinoTransaction' = casinoTransaction
             /\ handler[p].pc = "getBalance" =>
                    IF session # NoSession /\ session.userId = r.userId
                    THEN /\ out'.res.code = 200
                         /\ out'.res.body.balance =
                                BigIntToString(playableBalance'[session.walletId])
                         /\ out'.res.body.currency = "USD"
                         /\ out'.res.body.userId = r.userId
                    ELSE out'.res = SessionNotFound]_vars

\* C20 witness: a balance is being answered after the wallet has moved, while
\* a transaction of the other handler has an uncommitted update pending.
BalanceReadDuringUpdate ==
    /\ out.kind = "getBalance"
    /\ out.res.code = 200
    /\ playableBalance["w1"] # openingBalance["w1"]
    /\ \E q \in Procs :
           /\ handler[q].pc = "txCommit"
           /\ newBalance(q) # playableBalance["w1"]

\* The header holds the HMAC of the body under the secret, in hex of either
\* case, whatever follows the digest.
Genuine(signature, body, secret) ==
    /\ signature.form \in {"hex", "HEX", "hex+junk"}
    /\ signature.key = secret
    /\ signature.payload = JSONStringify(body)

\* The middleware let the request through to its handler.
Admitted(res) == res \notin {InvalidSignature, Misconfigured}

\* C18: the authentication gate: a request to getBalance, debit, credit or
\* rollback reaches its handler exactly when CASINO_SECRET is configured and
\* x-casino-signature holds the HMAC of the received body under it; when the
\* secret is missing it is answered 500, when the signature is missing or
\* does not match 401, in both cases before the handler runs and without a
\* change to a wallet or to the ledger.
SignatureGate ==
    [][\A p \in Procs :
         LET m == handler[p].req IN
         (/\ handler[p].pc = "gate"
          /\ handler'[p] # handler[p]
          /\ m.kind # "launch") =>
             IF /\ env.CASINO_SECRET # NoSecret
                /\ Genuine(m.xCasinoSignature, Body(m), env.CASINO_SECRET)
             THEN \/ /\ out' = NoOut
                     /\ handler'[p].pc \in {"session", "getBalance"}
                     /\ handler'[p].req = Body(m)
                  \/ /\ out'.outcome = "replayed"
                     /\ out'.transactionId = m.transactionId
             ELSE /\ out'.res =
                         IF env.CASINO_SECRET = NoSecret THEN Misconfigured
                         ELSE InvalidSignature
                  /\ handler'[p] = Idle
                  /\ playableBalance' = playableBalance
                  /\ casinoTransaction' = casinoTransaction]_vars

\* C18 witness: a debit is being refused at the gate for its signature, after
\* signed requests have written rows.
RefusedAtGate ==
    /\ out.res = InvalidSignature
    /\ out.kind = "debit"
    /\ Len(casinoTransaction) > 0

\* C19: the signing directions are not interchanged: with two different
\* secrets configured, what callCasino sends is admitted by the casino routes
\* and what launchGame sends by the provider route; a casino route admits only
\* a signature under CASINO_SECRET in x-casino-signature, the provider route
\* only one under PROVIDER_SECRET in x-provider-signature; a request whose
\* signature was made with the secret of the other direction is refused,
\* whichever header carries it.
DirectionsNotInterchanged ==
    [][\A p \in Procs :
         LET m == handler[p].req
             provider == m.kind = "launch"
             own == IF provider THEN env.PROVIDER_SECRET ELSE env.CASINO_SECRET
             other == IF provider THEN env.CASINO_SECRET ELSE env.PROVIDER_SECRET
             used == IF provider THEN m.xProviderSignature ELSE m.xCasinoSignature IN
         (/\ handler[p].pc = "gate"
          /\ handler'[p] # handler[p]
          /\ env.CASINO_SECRET # NoSecret
          /\ env.PROVIDER_SECRET # NoSecret
          /\ env.CASINO_SECRET # env.PROVIDER_SECRET) =>
             /\ (~provider /\ m = callCasino(casinoSecret(env), Body(m))) =>
                    Admitted(out'.res)
             /\ (provider /\ m = launchGame(env)) => Admitted(out'.res)
             /\ Admitted(out'.res) => Genuine(used, Body(m), own)
             /\ (\A h \in {m.xCasinoSignature, m.xProviderSignature} :
                      h.form \in {"undefined", "empty", "notHex"} \/ h.key = other) =>
                    ~Admitted(out'.res)]_vars

\* C19 witness: with both secrets configured and different, callbacks signed
\* under the casino secret have written rows, the launch call was admitted
\* under the provider secret, and a launch request is now being refused for
\* its signature.
LaunchRefused ==
    /\ env = Configured
    /\ out.kind = "launch"
    /\ out.res = InvalidSignature
    /\ Len(casinoTransaction) > 0

\* The rollback rows that reversed the debit of row k: the rows of type
\* rollback with an effect that name its id.
ReversalsOf(k) ==
    {j \in Rows :
        /\ IsRollbackRow(j)
        /\ casinoTransaction[j].amount # 0
        /\ casinoTransaction[j].relatedExternalTransactionId =
               casinoTransaction[k].externalTransactionId}

\* C21 (as claimed): a debit is reversed at most once: whatever rollbacks, each
\* with its own id, name a debit row, at most one rollback row with an effect
\* exists for it, and what these rows put back is at most the debit's amount.
ReversedAtMostOnce ==
    \A k \in Rows :
        IsDebitRow(k) =>
            /\ Cardinality(ReversalsOf(k)) <= 1
            /\ SumOf(casinoTransaction[k].walletId, Len(casinoTransaction),
                     ReversalsOf(k)) <= casinoTransaction[k].amount

\* C22 (as claimed): the eligibility checks of a rollback and its mutation are
\* one atomic unit: under any interleaving of a credit for a round with the
\* rollback of a debit of that round, the rollback does not commit once the
\* credit has committed.
RollbackNotAfterCredit ==
    [][\A p \in Procs :
         LET r == handler[p].req IN
         (/\ handler[p].pc = "txCommit"
          /\ r.kind = "rollback"
          /\ handler'[p] # handler[p]) =>
             ~RoundHasCredit(
                 FindByExternalId(r.originalTransactionId).externalRoundId)]_vars

\* C23 (as claimed): a handler that passed the idempotency lookup and whose
\* insert then meets the row a concurrent request with the same id committed
\* first is answered as an idempotency hit: with the cached response of that
\* row.
RaceLoserReplays ==
    [][\A p \in Procs :
         LET id == handler[p].req.transactionId IN
         (/\ handler[p].pc \in {"txCreate", "tombstone"}
          /\ HasRow(id)
          /\ handler'[p] # handler[p]) =>
             /\ out' # NoOut
             /\ out'.res = ReplayOf(FindByExternalId(id))]_vars

\* C24: the idempotency gate precedes every other check: a request that
\* reaches its handler while its externalTransactionId has a row is answered
\* 200 with the cached response of that row, whatever its session token, its
\* userId, its amount, the balance and the payouts of its round are by then;
\* the answer is never an error, and the step changes no wallet and no row.
\* No handler goes on to the session lookup with an id that has a row.
IdempotencyGateFirst ==
    [][\A p \in Procs :
         LET m == handler[p].req IN
         (/\ handler[p].pc = "gate"
          /\ handler'[p] # handler[p]) =>
             IF HasRow(m.transactionId)
             THEN /\ out'.outcome = "replayed"
                  /\ out'.res.code = 200
                  /\ out'.res.body = FindByExternalId(m.transactionId).responseCache
                  /\ out'.res.body.status = "ok"
                  /\ handler'[p] = Idle
                  /\ playableBalance' = playableBalance
                  /\ casinoTransaction' = casinoTransaction
             ELSE /\ out' = NoOut
                  /\ handler'[p].pc = "session"]_vars

\* C24 witness: a debit is being answered 200 from the cache while the wallet
\* is empty, so that a fresh debit of any amount would be refused.
ReplayDespiteRules ==
    /\ out.outcome = "replayed"
    /\ out.kind = "debit"
    /\ out.res.code = 200
    /\ playableBalance["w1"] = 0

\* C25 (as claimed): an accepted rollback of a debit raises the balance of the
\* wallet by exactly the amount stored on the debit row and appends a rollback
\* row with that amount and with relatedExternalTransactionId =
\* originalTransactionId, whatever amount the request carries.
RollbackRestoresOriginalAmount ==
    [][\A p \in Procs :
         LET r == handler[p].req
             w == WalletOf(p)
             n == Len(casinoTransaction) IN
         (/\ handler[p].pc = "txCommit"
          /\ r.kind = "rollback"
          /\ handler'[p] # handler[p]) =>
             LET original == FindByExternalId(r.originalTransactionId) IN
             /\ playableBalance'[w] = playableBalance[w] + original.amount
             /\ Len(casinoTransaction') = n + 1
             /\ casinoTransaction'[n + 1].transactionType = "rollback"
             /\ casinoTransaction'[n + 1].amount = original.amount
             /\ casinoTransaction'[n + 1].relatedExternalTransactionId =
                    r.originalTransactionId
             /\ out'.res.code = 200]_vars

\* C26 (as claimed): a rollback restores the funds to the wallet the debit was
\* taken from: the wallet of every rollback row with an effect is the wallet
\* of the debit row it names.
RollbackToDebitWallet ==
    \A j, k \in Rows :
        (/\ IsRollbackRow(j)
         /\ casinoTransaction[j].amount # 0
         /\ IsDebitRow(k)
         /\ casinoTransaction[j].relatedExternalTransactionId =
                casinoTransaction[k].externalTransactionId) =>
            casinoTransaction[j].walletId = casinoTransaction[k].walletId

\* C27 (as claimed): every rollback row that is not a tombstone carries the
\* round of the debit row it names, so that the payout check made for the
\* rollback was a check of the debit's round.
RollbackCarriesDebitRound ==
    \A j, k \in Rows :
        (/\ IsRollbackRow(j)
         /\ ~IsTombstone(casinoTransaction[j])
         /\ IsDebitRow(k)
         /\ casinoTransaction[j].relatedExternalTransactionId =
                casinoTransaction[k].externalTransactionId) =>
            casinoTransaction[j].externalRoundId =
                casinoTransaction[k].externalRoundId

\* C28 (as claimed): in every reachable state the relatedExternalTransactionId
\* of each rollback row is the id of a debit row or an id that no row has,
\* also after a debit or a credit arrived with the id a tombstone names
\* (stated for the rows that name another id than their own).
RelatedIsDebitOrAbsent ==
    \A j \in Rows :
        LET id == casinoTransaction[j].relatedExternalTransactionId IN
        (IsRollbackRow(j) /\ id # casinoTransaction[j].externalTransactionId) =>
            \/ ~HasRow(id)
            \/ FindByExternalId(id).transactionType = "debit"

\* A tombstone row names this id.
NamedByTombstone(id) ==
    \E i \in Rows :
        /\ IsTombstone(casinoTransaction[i])
        /\ casinoTransaction[i].relatedExternalTransactionId = id

\* C29: a tombstone does not block the transaction it names: requests served
\* one after the other, a debit whose externalTransactionId a tombstone names
\* is checked like any debit (session, bet bounds, funds) and, when it passes,
\* its commit lowers the balance by its amount and appends its debit row
\* behind the rows that were there, the tombstone among them, which stay as
\* they were; an answer from the cache is always the payload of a row written
\* for the request's own id, never of a row that names it.
TombstoneDoesNotBlock ==
    [][/\ \A p \in Procs :
              LET r == handler[p].req
                  w == WalletOf(p)
                  n == Len(casinoTransaction)
                  session == casinoGameSession(r.sessionToken) IN
              (/\ r.kind = "debit"
               /\ NamedByTombstone(r.transactionId)
               /\ handler'[p] # handler[p]) =>
                  /\ handler[p].pc = "session" =>
                         IF session = NoSession \/ session.userId # r.userId
                         THEN out'.res = SessionNotFound
                         ELSE IF r.amount < session.game.minBet
                                   \/ r.amount > session.game.maxBet
                         THEN out'.res = AmountOutOfRange
                         ELSE handler'[p].pc = "txRead"
                  /\ handler[p].pc = "txRead" =>
                         IF playableBalance[w] < r.amount
                         THEN out'.res = InsufficientFunds
                         ELSE handler'[p].pc = "txUpdate"
                  /\ handler[p].pc = "txCommit" =>
                         /\ playableBalance'[w] = playableBalance[w] - r.amount
                         /\ Len(casinoTransaction') = n + 1
                         /\ SubSeq(casinoTransaction', 1, n) = casinoTransaction
                         /\ casinoTransaction'[n + 1].transactionType = "debit"
                         /\ casinoTransaction'[n + 1].amount = r.amount
                         /\ casinoTransaction'[n + 1].externalTransactionId =
                                r.transactionId
                         /\ out'.res.code = 200
                         /\ out'.outcome = "applied"
       /\ (out' # NoOut /\ out'.outcome = "replayed") =>
              out'.res.body.transactionId = out'.transactionId]_vars

\* C29 witness: a debit is being answered as applied, its row right behind
\* the tombstone that names its id.
DebitAfterItsTombstone ==
    LET n == Len(casinoTransaction) IN
    /\ out.kind = "debit"
    /\ out.outcome = "applied"
    /\ n >= 2
    /\ casinoTransaction[n].externalTransactionId = out.transactionId
    /\ casinoTransaction[n].transactionType = "debit"
    /\ IsTombstone(casinoTransaction[n - 1])
    /\ casinoTransaction[n - 1].relatedExternalTransactionId = out.transactionId
    /\ playableBalance["w1"] = openingBalance["w1"] - casinoTransaction[n].amount

\* C30 (as claimed): the balanceAfter of a tombstone row and the balance in
\* its response are the balance of the wallet at the moment the row is
\* appended, also when another mutation of the wallet committed between the
\* session lookup of the rollback and the append.
TombstoneBalanceCurrent ==
    [][\A p \in Procs :
         LET n == Len(casinoTransaction) IN
         (/\ handler[p].pc = "tombstone"
          /\ handler'[p] # handler[p]
          /\ Len(casinoTransaction') = n + 1) =>
             /\ casinoTransaction'[n + 1].balanceAfter =
                    playableBalance'[WalletOf(p)]
             /\ out'.res.body.balance =
                    BigIntToString(playableBalance'[WalletOf(p)])]_vars

\* C31 (as claimed): every row of the ledger has a non-negative amount, and an
\* amount of zero only on a tombstone: no accepted debit or credit writes a
\* row with amount 0 or a negative amount.
AmountsPositive ==
    \A i \in Rows :
        /\ casinoTransaction[i].amount >= 0
        /\ casinoTransaction[i].amount = 0 => IsTombstone(casinoTransaction[i])

\* C32: the ledger is append-only: under any interleaving, every step leaves
\* the rows that exist as they are, in their places, and adds at most one
\* row; the step that answers an applied request adds exactly one row, the
\* row of that request, and no other step adds one: a replayed or rejected
\* request adds none.
AppendOnly ==
    [][LET n == Len(casinoTransaction) IN
       /\ Len(casinoTransaction') \in {n, n + 1}
       /\ SubSeq(casinoTransaction', 1, n) = casinoTransaction
       /\ (out' # NoOut /\ out'.outcome = "applied") <=>
              Len(casinoTransaction') = n + 1
       /\ Len(casinoTransaction') = n + 1 =>
              casinoTransaction'[n + 1].externalTransactionId = out'.transactionId
       /\ (out' # NoOut /\ out'.outcome \in {"replayed", "rejected"}) =>
              casinoTransaction' = casinoTransaction]_vars

\* C32 witness: a debit and its rollback are in the ledger, the debit row as
\* it was written, and a replay of the debit is being answered from it.
RowsKeptAfterRollback ==
    /\ Len(casinoTransaction) = 2
    /\ IsDebitRow(1)
    /\ IsRollbackRow(2)
    /\ casinoTransaction[2].relatedExternalTransactionId =
           casinoTransaction[1].externalTransactionId
    /\ out.outcome = "replayed"
    /\ out.transactionId = casinoTransaction[1].externalTransactionId
    /\ out.res.body = casinoTransaction[1].responseCache

\* C33: the idempotency keys are shared by all kinds: a request whose id has,
\* when it arrives, a row of another kind never goes on to the session lookup;
\* it is answered at once with that row's cached response, and the step
\* changes no balance and writes no row.
SharedKeySpace ==
    [][/\ \A p \in Procs :
              (handler[p].pc = "idle" /\ handler'[p].pc # "idle") =>
                  ~(/\ HasRow(handler'[p].req.transactionId)
                    /\ FindByExternalId(handler'[p].req.transactionId).transactionType
                           # handler'[p].req.kind)
       /\ (/\ handler' = handler
           /\ out = NoOut
           /\ out' # NoOut
           /\ HasRow(out'.transactionId)
           /\ FindByExternalId(out'.transactionId).transactionType # out'.kind) =>
              /\ out'.outcome = "replayed"
              /\ out'.res = Http(200, FindByExternalId(out'.transactionId).responseCache)
              /\ playableBalance' = playableBalance
              /\ casinoTransaction' = casinoTransaction
              /\ walletWrites' = walletWrites]_vars

\* C33 witness: a credit that reuses the id of an accepted debit is being
\* answered with the debit's cached response.
CreditReusesDebitId ==
    /\ out.kind = "credit"
    /\ out.outcome = "replayed"
    /\ HasRow(out.transactionId)
    /\ FindByExternalId(out.transactionId).transactionType = "debit"
    /\ out.res = Http(200, FindByExternalId(out.transactionId).responseCache)

\* C34: session resolution: when a debit, credit or rollback that passed the
\* idempotency check reaches the session lookup with a token that resolves to
\* no session, or to a session of another user than the one supplied, the
\* step answers SessionNotFound for that request, ends the handler, and
\* changes no balance and writes no row.
SessionResolution ==
    [][\A p \in Procs :
          (/\ handler[p].pc = "session"
           /\ handler'[p] # handler[p]
           /\ LET session == casinoGameSession(handler[p].req.sessionToken) IN
              \/ session = NoSession
              \/ session.userId # handler[p].req.userId) =>
              /\ out'.res = SessionNotFound
              /\ out'.outcome = "rejected"
              /\ out'.kind = handler[p].req.kind
              /\ out'.transactionId = handler[p].req.transactionId
              /\ handler'[p] = Idle
              /\ playableBalance' = playableBalance
              /\ casinoTransaction' = casinoTransaction
              /\ walletWrites' = walletWrites]_vars

\* C34 witness: a rollback with an unseen id is being refused with
\* SessionNotFound while the ledger holds a debit it could have reversed.
RollbackWithoutSession ==
    /\ out.kind = "rollback"
    /\ out.res = SessionNotFound
    /\ out.outcome = "rejected"
    /\ ~HasRow(out.transactionId)
    /\ \E i \in Rows : IsDebitRow(i)

\* The wallet of the session a handler's request came through.
SessionWallet(p) == casinoGameSession(handler[p].req.sessionToken).walletId

\* Every other request in flight is on another wallet and carries another id.
OthersElsewhere(p) ==
    \A q \in Procs \ {p} :
        handler[q].pc # "idle" =>
            /\ SessionWallet(q) # SessionWallet(p)
            /\ handler[q].req.transactionId # handler[p].req.transactionId

\* C35: wallet isolation: under any interleaving of requests on two wallets,
\* a balance changes only in a step of a request that came through a session
\* of that wallet, a row is added only in such a step and is attributed to
\* that wallet, and a request never waits for a request on another wallet:
\* whenever the event loop is free, a request whose companions in flight are
\* all on other wallets (and are other transactions) can take its next step.
WalletIsolation ==
    /\ [](\A p \in Procs :
              (handler[p].pc # "idle" /\ out = NoOut /\ OthersElsewhere(p)) =>
                  ENABLED Step(p))
    /\ [][/\ \A w \in Wallets :
                 playableBalance'[w] # playableBalance[w] =>
                     \E p \in Procs : /\ handler[p].pc # "idle"
                                      /\ handler'[p] # handler[p]
                                      /\ SessionWallet(p) = w
          /\ Len(casinoTransaction') > Len(casinoTransaction) =>
                 \E p \in Procs :
                     /\ handler[p].pc # "idle"
                     /\ handler'[p] # handler[p]
                     /\ casinoTransaction'[Len(casinoTransaction')].walletId =
                            SessionWallet(p)
                     /\ casinoTransaction'[Len(casinoTransaction')].sessionId =
                            handler[p].req.sessionToken]_vars

\* C35 witness: a debit on one wallet has updated its row and holds the lock
\* while a request on the other wallet stands at its own update, and the
\* other wallet's balance is as it was opened.
OtherWalletAtUpdate ==
    \E p, q \in Procs :
        /\ handler[p].pc = "txCreate"
        /\ handler[p].req.kind = "debit"
        /\ handler[q].pc = "txUpdate"
        /\ SessionWallet(p) = "w1"
        /\ SessionWallet(q) = "w2"
        /\ playableBalance["w1"] # openingBalance["w1"]
        /\ playableBalance["w2"] = openingBalance["w2"]

\* C36 (as claimed): every response of an applied request carries the id of
\* the request, the currency of the wallet and the balance the wallet holds as
\* the result, and is the responseCache of the row the request created; the
\* tombstone flag is in the payload exactly when that row is a tombstone.
ResponseMatchesRecord ==
    out.outcome = "applied" =>
        /\ HasRow(out.transactionId)
        /\ LET row == FindByExternalId(out.transactionId) IN
           /\ out.res = Http(200, row.responseCache)
           /\ out.res.body.transactionId = out.transactionId
           /\ out.res.body.currency = currencyCode(row.walletId)
           /\ out.res.body.balance = BigIntToString(playableBalance[row.walletId])
           /\ ("tombstone" \in DOMAIN out.res.body) <=>
                  (row.transactionType = "rollback" /\ row.amount = 0)

\* C37: every debit, credit or rollback completes with exactly one outcome.
\* A request that is in a handler is eventually answered, whatever the other
\* handler does on the same wallet or with the same id, and the answer is a
\* replay, an application or a rejection; a request answered at arrival is a
\* replay.  The step that answers adds exactly one row when the request is
\* applied and none when it is replayed or rejected.
EventuallyCompletes ==
    /\ \A p \in Procs : \A id \in TxIds :
           (handler[p].pc # "idle" /\ handler[p].req.transactionId = id) ~>
               (/\ handler[p].pc = "idle"
                /\ out.transactionId = id
                /\ out.outcome \in {"replayed", "applied", "rejected"})
    /\ [][out' # NoOut =>
              /\ out = NoOut
              /\ out'.outcome \in {"replayed", "applied", "rejected"}
              /\ out'.outcome = "applied" =>
                     Len(casinoTransaction') = Len(casinoTransaction) + 1
              /\ out'.outcome \in {"replayed", "rejected"} =>
                     casinoTransaction' = casinoTransaction]_vars

\* C37 witness: a handler waits at its wallet update for the row lock that
\* the other handler's transaction holds, both carrying the same id.
WaitingBehindSameId ==
    \E p, q \in Procs :
        /\ p # q
        /\ handler[p].pc = "txUpdate"
        /\ handler[q].pc = "txCommit"
        /\ HoldsRowLock(q, WalletOf(p))
        /\ handler[p].req.transactionId = handler[q].req.transactionId

\* The rows of the simulated round in the casino's ledger.
InRound(i) == casinoTransaction[i].externalRoundId = roundId

\* C38 (as claimed): once the provider has closed the simulated round, its
\* totalBetAmount is the sum of the debits the casino accepted in the round
\* and has not reversed, and its totalPayoutAmount is the sum of the credits
\* the casino accepted in the round.
RoundTotals ==
    providerGameRound.status = "closed" =>
        /\ providerGameRound.totalBetAmount =
               SumOf("w1", Len(casinoTransaction),
                     {i \in Rows : InRound(i) /\ IsDebitNotRolledBack(i)})
        /\ providerGameRound.totalPayoutAmount =
               SumOf("w1", Len(casinoTransaction),
                     {i \in Rows : InRound(i) /\ IsCreditRow(i)})

\* Two parsed bodies with the same fields: the path of the request is not
\* part of the body.
SameBody(a, b) == \A f \in DOMAIN a \ {"kind"} : a[f] = b[f]

\* C39: signature round trip: for every body and every secret,
\* verifySignature accepts the signature signBody gives for that body under
\* that secret; it returns false when the signature is absent, and when the
\* signature is the one signBody gives for a different body or under a
\* different secret.
SignatureRoundTrip ==
    verification.called =>
        LET sig == verification.providedSignature
            body == verification.body
            secret == verification.secret IN
        /\ sig = signBody(body, secret) => verification.result
        /\ sig \in {Undefined, EmptyHeader} => ~verification.result
        /\ \A b \in AuthBodies \cup {OtherBody(x) : x \in AuthBodies} :
               \A k \in Keys :
                   (/\ sig = signBody(b, k)
                    /\ ~SameBody(b, body) \/ k # secret) =>
                       ~verification.result

\* C39 witness: verifySignature has returned true for the signature signBody
\* gives for the body under the secret.
RoundTripVerified ==
    /\ verification.called
    /\ verification.providedSignature =
           signBody(verification.body, verification.secret)
    /\ verification.result
====
